---- MODULE Spec2Model ----
(***************************************************************************)
(* A model of the KSeF invoice downloader: the AuthSession handshake       *)
(* (src/ksef_auth.py), the windowed, paged, retrying bulk fetch            *)
(* (src/ksef_invoices.py) and the sequence main() drives them in           *)
(* (src/main.py).                                                          *)
(*                                                                         *)
(* One action is one HTTP request together with everything the code does   *)
(* with its response up to the next request (the program is sequential;    *)
(* the server's answers are the only nondeterminism); main() between its   *)
(* authenticate() and its first bulk query is an action of its own, which  *)
(* reads the configuration.                                                *)
(*                                                                         *)
(* Time is counted in tenths of a second (the code sleeps 0.3 s and 1.5 s).*)
(***************************************************************************)
EXTENDS Integers, Sequences, FiniteSets, TLC

VARIABLES
    \* ---- KSeFAuth (src/ksef_auth.py) ----
    access_token,    \* self.access_token : None, "" or a token
    refresh_token,   \* self.refresh_token
    pc,              \* where the program is: the request it issues next
    caller,          \* who called authenticate(): "main", "fetch" or "client"
    keyGood,         \* the key material of step 1 can be loaded in step 3
    poll_attempt,    \* `attempt` of _wait_for_auth
    \* ---- the server ----
    nextTok,         \* the next token the server issues (tokens are fresh)
    \* ---- history of the running / last authenticate() call ----
    authLog,         \* endpoints requested by this call, in order
    lastPoll,        \* the last poll's response [http, code]
    pollSleeps,      \* sleeps performed by _wait_for_auth in this call
    pollSlept,       \* time slept by _wait_for_auth in this call
    authErr,         \* "none", "running", "ok" or the error kind raised
    authBefore,      \* <<access_token, refresh_token>> when the call began
    lastBody,        \* the token body the client's redeem or refresh was answered with
    everAuthOk,      \* some authenticate() on this session has succeeded
    latestTok,       \* the token the last successful authenticate/refresh returned
    \* ---- history of the client of AuthSession ----
    lastOp,          \* the last completed operation and what it returned
    nOps,            \* operations the client has called
    \* ---- configuration and the server's content, drawn when main() uses them ----
    scenario,        \* the family of inputs this run draws from
    cfg,             \* DATE_FROM, DATE_TO, PAGE_SIZE, whether auth is attached,
                     \* the server's content and the faults it may still inject
    faults,          \* non-200 answers the bulk endpoint may still give
    \* ---- KSeFInvoices and main() (src/ksef_invoices.py, src/main.py) ----
    fs,              \* the locals of main / fetch_all / _fetch_window / _query_page
    auth_headers,    \* self.auth_headers: the bearer token the fetcher sends
    \* ---- history of the bulk fetch ----
    lastReq,         \* the last bulk query request and its answer
    pageReqs,        \* requests issued by the running _query_page call
    sinceReq,        \* time slept since the last bulk query request
    reqAges,         \* ages of the bulk query requests of the trailing hour
    windowsQueried,  \* the date windows of the running fetch_all, in order
    winSleeps        \* inter-window sleeps of the running fetch_all

authVars == <<access_token, refresh_token, keyGood, poll_attempt, nextTok>>
authHist == <<authLog, lastPoll, pollSleeps, pollSlept, lastBody, authErr, authBefore,
              everAuthOk, latestTok>>
clientHist == <<lastOp, nOps>>
config == <<scenario, cfg>>
fetchVars == <<fs, auth_headers, faults>>
fetchHist == <<lastReq, pageReqs, windowsQueried, winSleeps>>
clock == <<sinceReq, reqAges>>
vars == <<authVars, authHist, clientHist, pc, caller, config, fetchVars,
          fetchHist, clock>>

----------------------------------------------------------------------------
\* Bounds of the model

\* operations the client of AuthSession calls in one run
MaxOps == 3
\* non-200 answers the bulk endpoint gives in one run
MaxFaults == 5
\* "pending" answers the status endpoint gives to one handshake of main() (a
\* client of the AuthSession alone is answered "pending" as often as it polls)
MaxPending == 1
\* invoices the server holds for one window
MaxRecs == 2
\* how many months after its first month a range of "windows" may end
SpanMonths == 7
\* the first year of the calendar the date ranges are drawn from
FirstYear == 2023
\* pages a server that never ends a window is asked for, and the invoices of a
\* long window of "paging"
MaxPages == 12

----------------------------------------------------------------------------
\* Program constants

\* _wait_for_auth(max_retries = 15)
MAX_RETRIES == 15
\* _wait_for_auth(sleep_s = 1.5), in tenths of a second
SLEEP_S == 15
\* SLEEP_BETWEEN_WINDOWS = 185 s, in tenths of a second
SLEEP_BETWEEN_WINDOWS == 1850
\* time.sleep(0.3) between the pages of a window, in tenths of a second
SLEEP_BETWEEN_PAGES == 3
\* time.sleep(1) of main() after authenticate, in tenths of a second
SLEEP_AFTER_AUTH == 10
\* for attempt in range(1, 6)
MAX_ATTEMPTS == 5
\* the window is relativedelta(months=3) long
WINDOW_MONTHS == 3
\* page_size is clamped to [1, 1000]
MAX_PAGE_SIZE == 1000
\* the quota of the bulk endpoint: 20 requests ...
QUOTA_REQUESTS == 20
\* ... in 3600 s, in tenths of a second
QUOTA_PERIOD == 36000

----------------------------------------------------------------------------
\* Python values

\* None, and the empty string; a token is a positive number
None == -1
EmptyStr == 0

\* A JSON field as it arrives: absent, null, a string, {} or an object
\* (v: the string, or the object's "token" entry, None when it has none).
Wire(k, v) == [k |-> k, v |-> v]
Absent == Wire("absent", None)

\* Python truthiness of d.get(field)
Truthy(w) == (w.k = "str" /\ w.v > 0) \/ w.k = "dict"
\* a or b
Or(a, b) == IF Truthy(a) THEN a ELSE b
\* d.get(field, default)
Get(w, default) == IF w.k = "absent" THEN default ELSE w

\* `x.get("token") if isinstance(x, dict) else x`, a string or None coming out
\* (before it: the same with an object never unwrapped)
ResolveStringsOnly(w) == IF w.k = "str" THEN w.v ELSE None
Resolve(w) ==
    IF w.k \in {"dict", "emptydict"} THEN (IF w.k = "dict" THEN w.v ELSE None)
    ELSE IF w.k = "str" THEN w.v
    ELSE None

\* not self.access_token
Falsy(tok) == tok <= 0

----------------------------------------------------------------------------
\* The server's answers

\* GET /security/public-key-certificates
KeyResponses == {"http_error", "no_certificates", "no_field", "ok", "ok_malformed"}
\* POST /auth/challenge
ChallengeResponses == {"http_error", "no_challenge", "ok"}
\* POST /auth/ksef-token
SubmitResponses == {"http_error", "no_token", "ok"}
\* GET /auth/{referenceNumber}: the HTTP status and, under 200, status.code
\* (0: no status object in the body)
PollResponses ==
    {[http |-> 200, code |-> c] : c \in {0, 200, 399, 400, 450}}
    \cup {[http |-> h, code |-> 0] : h \in {202, 500}}
NoPoll == [http |-> 0, code |-> 0]

\* the shapes a token field takes on the wire, t the token string
TokenShapes(t) ==
    {Absent, Wire("null", None), Wire("str", t), Wire("dict", t), Wire("dict", None),
     Wire("emptydict", None)}
\* POST /auth/token/redeem and /auth/token/refresh: the body of a 200
TokenBodies(t) ==
    [accessToken : TokenShapes(t), token : {Absent, Wire("str", t)},
     refreshToken : TokenShapes(t)]
\* main() never reads the refresh token: its runs are answered with one that is there
NoBody ==
    [accessToken |-> Wire("none", None), token |-> Wire("none", None),
     refreshToken |-> Wire("none", None)]
RedeemBodies(sc, t) ==
    IF sc = "client" THEN TokenBodies(t)
    ELSE {b \in TokenBodies(t) : b.refreshToken \in {Wire("str", t), Wire("dict", t)}}

----------------------------------------------------------------------------
\* Calendar dates: datetime / timedelta / relativedelta

Min(a, b) == IF a <= b THEN a ELSE b
Max(a, b) == IF a >= b THEN a ELSE b

Date(y, m, d) == [y |-> y, m |-> m, d |-> d]

IsLeap(y) == (y % 4 = 0 /\ y % 100 # 0) \/ y % 400 = 0
DaysInMonth(y, m) ==
    IF m = 2 THEN (IF IsLeap(y) THEN 29 ELSE 28)
    ELSE IF m \in {4, 6, 9, 11} THEN 30 ELSE 31

\* a <= b on datetimes
DateLeq(a, b) ==
    \/ a.y < b.y
    \/ a.y = b.y /\ a.m < b.m
    \/ a.y = b.y /\ a.m = b.m /\ a.d <= b.d

\* d + timedelta(days=1)
PlusDay(a) ==
    IF a.d < DaysInMonth(a.y, a.m) THEN Date(a.y, a.m, a.d + 1)
    ELSE IF a.m < 12 THEN Date(a.y, a.m + 1, 1)
    ELSE Date(a.y + 1, 1, 1)

\* d - timedelta(days=1)
MinusDay(a) ==
    IF a.d > 1 THEN Date(a.y, a.m, a.d - 1)
    ELSE IF a.m > 1 THEN Date(a.y, a.m - 1, DaysInMonth(a.y, a.m - 1))
    ELSE Date(a.y - 1, 12, 31)

\* d + relativedelta(months=n), 0 <= n <= 12: the month moves on, the year with it,
\* and the day is cut to the length of the month it lands in
AddMonths(a, n) ==
    LET m0 == a.m + n
        y1 == IF m0 > 12 THEN a.y + 1 ELSE a.y
        m1 == IF m0 > 12 THEN m0 - 12 ELSE m0
    IN  Date(y1, m1, Min(a.d, DaysInMonth(y1, m1)))

\* to_iso(d, end_of_day): "YYYY-MM-DDT00:00:00.000Z" or "...T23:59:59.000Z"
to_iso(d, end_of_day) ==
    [date |-> d, time |-> IF end_of_day THEN "23:59:59" ELSE "00:00:00"]
\* datetime.strptime(s[:10], "%Y-%m-%d")
ParseDay(s) == s.date

\* min(start + relativedelta(months=3) - timedelta(days=1), dt_to)
WindowEndNoDayOff(start, dt_to) ==
    LET e == AddMonths(start, WINDOW_MONTHS)
    IN  IF DateLeq(e, dt_to) THEN e ELSE dt_to
WindowEndUncapped(start, dt_to) == MinusDay(AddMonths(start, WINDOW_MONTHS))
WindowEnd(start, dt_to) ==
    LET e == MinusDay(AddMonths(start, WINDOW_MONTHS))
    IN  IF DateLeq(e, dt_to) THEN e ELSE dt_to

\* _count_windows(dt_from, dt_to)
RECURSIVE CountFrom(_, _, _)
CountFrom(start, dt_to, count) ==
    IF DateLeq(start, dt_to)
    THEN CountFrom(PlusDay(WindowEnd(start, dt_to)), dt_to, count + 1)
    ELSE count
_count_windows(dt_from, dt_to) == CountFrom(dt_from, dt_to, 0)

\* min(max(page_size, 1), 1000)
ClampPageSize(page_size) == Min(Max(page_size, 1), MAX_PAGE_SIZE)

----------------------------------------------------------------------------
\* The bulk endpoint, POST /invoices/query/metadata

Subject(call) == IF call = 1 THEN "Subject1" ELSE "Subject2"
\* SUBJECT_TYPE_LABELS.get(subject_type, subject_type)
Label(subject_type) ==
    IF subject_type = "Subject1" THEN "Wystawione" ELSE "Otrzymane"

\* The page the server holds for window w of a subject at an offset: the window has
\* c.content[w] invoices, a page carries at most pageSize of them, and hasMore is
\* true while more follow ("honest"), always true ("always") or left out ("absent");
\* an "endless" server has a full page with hasMore true at every offset.
ServerPage(c, subject_type, w, pageOffset, pageSize) ==
    LET total == c.content[w]
        n == IF c.mode = "endless" THEN pageSize
             ELSE Min(pageSize, Max(total - pageOffset, 0))
    IN  [invoices |-> [i \in 1..n |->
                         [subject |-> subject_type, w |-> w, i |-> pageOffset + i,
                          typ |-> "untagged"]],
         hasMore |-> CASE c.mode = "honest" -> pageOffset + n < total
                       [] c.mode \in {"always", "endless"} -> TRUE
                       [] OTHER -> FALSE]

\* The Retry-After header of a 429: absent, a number of seconds, or an HTTP date
RetryAfterHeaders ==
    {[k |-> "absent", v |-> 0], [k |-> "int", v |-> 0], [k |-> "int", v |-> 10],
     [k |-> "date", v |-> 0]}
NoHeader == [k |-> "absent", v |-> 0]

\* the answers of the bulk endpoint
QueryAnswers ==
    {[status |-> st, retry |-> NoHeader] : st \in {200, 401, 500}}
    \cup {[status |-> 429, retry |-> h] : h \in RetryAfterHeaders}

----------------------------------------------------------------------------
\* KSeFInvoices: what the code does between two requests, as a function of the
\* machine m = [pc, fs, slept, winSleeps, windowsQueried, pageReqs]

Raise(m, e) == [m EXCEPT !.pc = "failed", !.fs.err = e]

\* _query_page is entered for an offset
EnterQueryPage(m, off) ==
    [m EXCEPT !.pc = "query", !.fs.offset = off, !.fs.attempt = 1, !.pageReqs = 0]

\* `continue` in the attempt loop, and the raise behind the loop
NextAttemptUnbounded(m) == [m EXCEPT !.pc = "query", !.fs.attempt = @ + 1]
NextAttempt(m) ==
    IF m.fs.attempt = MAX_ATTEMPTS THEN Raise(m, "FetchError_exhausted")
    ELSE [m EXCEPT !.pc = "query", !.fs.attempt = @ + 1]

RECURSIVE BeginFetchAll(_, _)
\* fetch_all's `while window_start <= dt_to`, up to the first request of the window,
\* or its return into main(), which goes on with the next category
Loop(m) ==
    IF DateLeq(m.fs.window_start, m.fs.dt_to)
    THEN LET we == WindowEnd(m.fs.window_start, m.fs.dt_to)
         IN  EnterQueryPage(
                 [m EXCEPT !.fs.window_num = @ + 1,
                           !.fs.window_end = we,
                           !.fs.win_invoices = <<>>,
                           !.windowsQueried =
                               Append(@, [start |-> m.fs.window_start, end |-> we])],
                 0)
    ELSE IF m.fs.call = 1
         THEN BeginFetchAll([m EXCEPT !.fs.wystawione = m.fs.all_invoices], 2)
         ELSE [m EXCEPT !.fs.otrzymane = m.fs.all_invoices, !.pc = "done"]

\* fetch_all(subject_type, date_from, date_to) up to its first request
BeginFetchAll(m, c) ==
    LET dt_from == ParseDay(m.fs.date_from)
        dt_to == ParseDay(m.fs.date_to)
    IN  Loop([m EXCEPT !.fs.call = c,
                       !.fs.dt_from = dt_from,
                       !.fs.dt_to = dt_to,
                       !.fs.total_windows = _count_windows(dt_from, dt_to),
                       !.fs.all_invoices = <<>>,
                       !.fs.window_start = dt_from,
                       !.fs.window_num = 0,
                       !.windowsQueried = <<>>,
                       !.winSleeps = 0])

\* _fetch_window returns its list to fetch_all (before it: the same with the sleep
\* after every window, the last one too)
EndWindowAlwaysSleeps(m) ==
    LET ws == PlusDay(m.fs.window_end)
        m1 == [m EXCEPT !.fs.all_invoices = @ \o m.fs.win_invoices,
                        !.fs.window_start = ws]
    IN  Loop([m1 EXCEPT !.slept = @ + SLEEP_BETWEEN_WINDOWS, !.winSleeps = @ + 1])
EndWindow(m) ==
    LET ws == PlusDay(m.fs.window_end)
        m1 == [m EXCEPT !.fs.all_invoices = @ \o m.fs.win_invoices,
                        !.fs.window_start = ws]
    IN  IF DateLeq(ws, m.fs.dt_to)
        THEN Loop([m1 EXCEPT !.slept = @ + SLEEP_BETWEEN_WINDOWS, !.winSleeps = @ + 1])
        ELSE Loop(m1)

\* _fetch_window's loop body on the page _query_page returned (before it: the
\* same with a limit of ten pages a window, and the same with the offset advanced
\* by the page size instead of the number of records received)
PageOkCapped(m, page) ==
    IF page.invoices = <<>> THEN EndWindow(m)
    ELSE LET label == Label(Subject(m.fs.call))
             tagged == [i \in 1..Len(page.invoices) |->
                          [page.invoices[i] EXCEPT !.typ = label]]
             m1 == [m EXCEPT !.fs.win_invoices = @ \o tagged,
                             !.fs.offset = @ + Len(page.invoices)]
         IN  IF ~page.hasMore \/ m1.fs.offset >= 10 * m.fs.page_size THEN EndWindow(m1)
             ELSE EnterQueryPage([m1 EXCEPT !.slept = @ + SLEEP_BETWEEN_PAGES],
                                 m1.fs.offset)
PageOkOffsetByPageSize(m, page) ==
    IF page.invoices = <<>> THEN EndWindow(m)
    ELSE LET label == Label(Subject(m.fs.call))
             tagged == [i \in 1..Len(page.invoices) |->
                          [page.invoices[i] EXCEPT !.typ = label]]
             m1 == [m EXCEPT !.fs.win_invoices = @ \o tagged,
                             !.fs.offset = @ + m.fs.page_size]
         IN  IF ~page.hasMore THEN EndWindow(m1)
             ELSE EnterQueryPage([m1 EXCEPT !.slept = @ + SLEEP_BETWEEN_PAGES],
                                 m1.fs.offset)
PageOk(m, page) ==
    IF page.invoices = <<>> THEN EndWindow(m)
    ELSE LET label == Label(Subject(m.fs.call))
             tagged == [i \in 1..Len(page.invoices) |->
                          [page.invoices[i] EXCEPT !.typ = label]]
             m1 == [m EXCEPT !.fs.win_invoices = @ \o tagged,
                             !.fs.offset = @ + Len(page.invoices)]
         IN  IF ~page.hasMore THEN EndWindow(m1)
             ELSE EnterQueryPage([m1 EXCEPT !.slept = @ + SLEEP_BETWEEN_PAGES],
                                 m1.fs.offset)

\* int(resp.headers.get("Retry-After", SLEEP_BETWEEN_WINDOWS)) + 2, in tenths of a second
RetryDelay(h) ==
    (IF h.k = "absent" THEN SLEEP_BETWEEN_WINDOWS ELSE h.v * 10) + 20

\* _query_page on a 429 (before it: the same going on with the page after this one,
\* and the same giving up at once)
On429SkipsPage(m, h) ==
    IF h.k = "date" THEN Raise(m, "ValueError")
    ELSE NextAttempt([m EXCEPT !.slept = @ + RetryDelay(h),
                               !.fs.offset = @ + m.fs.page_size])
On429GivesUp(m, h) == Raise(m, "FetchError_status")
On429(m, h) ==
    IF h.k = "date" THEN Raise(m, "ValueError")
    ELSE NextAttempt([m EXCEPT !.slept = @ + RetryDelay(h)])

\* _query_page on a response that is neither a 401 it re-authenticates on nor a 429
OnOtherRetries(m, r, c) ==
    IF r.status = 200
    THEN PageOk(m, ServerPage(c, Subject(m.fs.call), m.fs.window_num,
                              m.fs.offset, m.fs.page_size))
    ELSE NextAttempt(m)
OnOther(m, r, c) ==
    IF r.status = 200
    THEN PageOk(m, ServerPage(c, Subject(m.fs.call), m.fs.window_num,
                              m.fs.offset, m.fs.page_size))
    ELSE Raise(m, "FetchError_status")

\* get_auth_headers(): the bearer token, None standing for the raise
get_auth_headers(tok) == IF Falsy(tok) THEN None ELSE tok

----------------------------------------------------------------------------
\* The inputs of a run: DATE_FROM, DATE_TO, PAGE_SIZE (main.py), whether the
\* fetcher holds the AuthSession, and the server's content

Y0 == FirstYear
Y1 == FirstYear + 1

\* the windows of a range
Windows(from, to) == _count_windows(from, to)

Config(from, to, size, hasAuth, mode, content, nfaults) ==
    [DATE_FROM |-> from, DATE_TO |-> to, PAGE_SIZE |-> size, hasAuth |-> hasAuth,
     mode |-> mode, content |-> content, faults |-> nfaults]

ConfigsOf(ranges, sizes, auths, modes, recs, nfaults) ==
    UNION {{Config(r[1], r[2], size, hasAuth, mode, content, nfaults) :
               size \in sizes, hasAuth \in auths, mode \in modes,
               content \in [1..Windows(r[1], r[2]) -> recs]} : r \in ranges}

\* "faults": a range of one window with pages of one invoice and of two, and with
\* and without the AuthSession; a range of two windows with pages of two; an empty
\* range; every content of up to MaxRecs invoices a window; MaxFaults faults
OneWindow == <<Date(Y1, 1, 15), Date(Y1, 1, 20)>>
TwoWindows == <<Date(Y0, 12, 1), Date(Y1, 3, 10)>>
NoWindow == <<Date(Y1, 2, 1), Date(Y1, 1, 1)>>
Modes == {"honest", "always", "absent"}
FaultConfigs ==
    ConfigsOf({OneWindow}, {0, 2}, BOOLEAN, Modes, 0..MaxRecs, MaxFaults)
    \cup ConfigsOf({TwoWindows}, {2}, {TRUE}, Modes, 0..MaxRecs, MaxFaults)
    \cup ConfigsOf({NoWindow}, {100}, {TRUE}, {"honest"}, 0..MaxRecs, MaxFaults)

\* "windows": the ranges that begin on a first or last day of a month (or next to
\* one) of fourteen months and end on such a day up to SpanMonths months later,
\* the default page size, an empty server, no faults
EdgeDays == {1, 2, 15, 27, 28, 29, 30, 31}
MonthDays(y, m) == {Date(y, m, d) : d \in {e \in EdgeDays : e <= DaysInMonth(y, m)}}
StartMonths == {<<Y0, 11>>, <<Y0, 12>>} \cup {<<Y1, m>> : m \in 1..12}
MonthsAfter(ym, n) ==
    LET k == ym[2] + n IN <<ym[1] + (k - 1) \div 12, ((k - 1) % 12) + 1>>
WideRanges ==
    LET all == UNION {UNION {MonthDays(ym[1], ym[2])
                                \X MonthDays(MonthsAfter(ym, n)[1], MonthsAfter(ym, n)[2])
                             : n \in 0..SpanMonths} : ym \in StartMonths}
    IN  {r \in all : DateLeq(r[1], r[2])}
WindowConfigs == ConfigsOf(WideRanges, {100}, {TRUE}, {"honest"}, {0}, 0)

\* "quota": one window that holds one invoice more than the hourly quota has
\* requests, pages of one invoice, one fault
QuotaConfigs ==
    ConfigsOf({<<Date(Y1, 1, 1), Date(Y1, 3, 31)>>}, {1}, {TRUE}, {"honest"},
              {QUOTA_REQUESTS + 1}, 1)

\* "paging": ranges of one and of two windows, pages of one invoice, windows that
\* are empty, hold one invoice or hold MaxPages, every hasMore behaviour and the
\* server that never ends a window, one fault
PagingConfigs ==
    ConfigsOf({OneWindow, TwoWindows}, {1}, {TRUE}, Modes \cup {"endless"},
              {0, 1, MaxPages}, 1)

Configs(sc) ==
    CASE sc = "faults" -> FaultConfigs
      [] sc = "paging" -> PagingConfigs
      [] sc = "windows" -> WindowConfigs
      [] sc = "quota" -> QuotaConfigs
      [] OTHER -> {}

NoDate == Date(0, 0, 0)
NoCfg == Config(NoDate, NoDate, 0, FALSE, "honest", <<>>, 0)

----------------------------------------------------------------------------
\* Initial states

NoReq ==
    [call |-> 0, w |-> 0, from |-> to_iso(NoDate, FALSE), to |-> to_iso(NoDate, TRUE),
     offset |-> 0, pageSize |-> 0, token |-> None, attempt |-> 0, status |-> 0,
     retry |-> NoHeader, acc |-> <<>>, win |-> <<>>, reauth |-> FALSE, inHour |-> 0]

InitFs ==
    [call |-> 0, date_from |-> to_iso(NoDate, FALSE), date_to |-> to_iso(NoDate, TRUE),
     page_size |-> 0, dt_from |-> NoDate, dt_to |-> NoDate, total_windows |-> 0,
     window_start |-> NoDate, window_end |-> NoDate, window_num |-> 0,
     all_invoices |-> <<>>, offset |-> 0, win_invoices |-> <<>>, attempt |-> 0,
     wystawione |-> <<>>, otrzymane |-> <<>>, err |-> "none"]

NoOp == [op |-> "none", ok |-> TRUE, err |-> "none", val |-> None, sent |-> FALSE]

\* KSeFAuth.__init__ and the histories
InitCommon ==
    /\ access_token = None
    /\ refresh_token = None
    /\ keyGood = FALSE
    /\ poll_attempt = 0
    /\ nextTok = 1
    /\ authLog = <<>>
    /\ lastPoll = NoPoll
    /\ pollSleeps = 0
    /\ pollSlept = 0
    /\ authBefore = <<None, None>>
    /\ lastBody = NoBody
    /\ everAuthOk = FALSE
    /\ latestTok = None
    /\ lastOp = NoOp
    /\ nOps = 0
    /\ cfg = NoCfg
    /\ faults = 0
    /\ fs = InitFs
    /\ auth_headers = None
    /\ lastReq = NoReq
    /\ pageReqs = 0
    /\ sinceReq = 0
    /\ reqAges = <<>>
    /\ windowsQueried = <<>>
    /\ winSleeps = 0

\* main() has built the AuthSession and calls authenticate()
InitMain(sc) ==
    /\ InitCommon
    /\ scenario = sc
    /\ pc = "auth_key"
    /\ caller = "main"
    /\ authErr = "running"

\* a client holds a fresh AuthSession
InitAuth ==
    /\ InitCommon
    /\ scenario = "client"
    /\ pc = "idle"
    /\ caller = "client"
    /\ authErr = "none"

Init == InitMain("faults")

----------------------------------------------------------------------------
\* Time

\* the requests of the trailing hour once d more time has passed
Aged(ages, d) ==
    SelectSeq([i \in 1..Len(ages) |-> ages[i] + d], LAMBDA a : a < QUOTA_PERIOD)

\* the ledger of the trailing hour is kept in the runs on the "quota" inputs
Ledger == scenario = "quota"

\* time.sleep(d), d the time slept within one step
Sleep(d) ==
    /\ sinceReq' = IF lastReq.status = 0 THEN 0 ELSE sinceReq + d
    /\ reqAges' = IF Ledger THEN Aged(reqAges, d) ELSE reqAges

\* a bulk query request is sent, then d is slept
RequestThenSleep(d) ==
    /\ sinceReq' = d
    /\ reqAges' = IF Ledger THEN Aged(Append(reqAges, 0), d) ELSE reqAges

----------------------------------------------------------------------------
\* Steps

Cur ==
    [pc |-> pc, fs |-> fs, slept |-> 0, winSleeps |-> winSleeps,
     windowsQueried |-> windowsQueried, pageReqs |-> pageReqs]

Apply(m) ==
    /\ pc' = m.pc
    /\ fs' = m.fs
    /\ winSleeps' = m.winSleeps
    /\ windowsQueried' = m.windowsQueried
    /\ pageReqs' = m.pageReqs


\* the history of an authenticate() call: h = [log, poll, sleeps, slept, body]
Hist ==
    [log |-> authLog, poll |-> lastPoll, sleeps |-> pollSleeps, slept |-> pollSlept,
     body |-> lastBody]
NoHist == [log |-> <<>>, poll |-> NoPoll, sleeps |-> 0, slept |-> 0, body |-> NoBody]
SetHist(h) ==
    /\ authLog' = h.log
    /\ lastPoll' = h.poll
    /\ pollSleeps' = h.sleeps
    /\ pollSlept' = h.slept
    /\ lastBody' = h.body

\* authenticate() is entered
BeginAuth ==
    /\ SetHist(NoHist)
    /\ authErr' = "running"
    /\ authBefore' = <<access_token, refresh_token>>
    /\ keyGood' = FALSE
    /\ poll_attempt' = 0

fixedInAuth == <<caller, scenario, nOps, lastReq>>

\* the status endpoint may answer "pending"
MayPend == scenario = "client" \/ poll_attempt <= MaxPending

\* authenticate() goes on to its next request
AuthGoOn(next, h) ==
    /\ pc' = next
    /\ SetHist(h)
    /\ UNCHANGED <<authErr, authBefore, everAuthOk, latestTok, lastOp, fs, auth_headers,
                   cfg, faults, winSleeps, windowsQueried, pageReqs>>

\* `self.auth_headers = self.auth.get_auth_headers()` after the re-authentication
\* (before it: the line left out, the fetcher keeps the header it had)
HeadersAfterReauthKept(old, tok) == old
HeadersAfterReauth(old, tok) == get_auth_headers(tok)

\* authenticate() returns ("ok") or raises, after d was slept in this step, and the
\* caller goes on up to its next request. The history of the call stays until the
\* caller's next step: for main() and the fetcher that step is this one.
AuthExit(result, h, d) ==
    /\ keyGood' = FALSE
    /\ poll_attempt' = 0
    /\ everAuthOk' = (everAuthOk \/ result = "ok")
    /\ latestTok' = IF result = "ok" THEN access_token' ELSE latestTok
    /\ CASE caller = "client" ->
              /\ pc' = "idle"
              /\ authErr' = result
              /\ SetHist(h)
              /\ lastOp' = [op |-> "authenticate", ok |-> result = "ok",
                            err |-> IF result = "ok" THEN "none" ELSE result,
                            val |-> IF result = "ok" THEN access_token' ELSE None,
                            sent |-> TRUE]
              /\ Sleep(d)
              /\ UNCHANGED <<authBefore, fs, auth_headers, cfg, faults, winSleeps,
                             windowsQueried, pageReqs>>
         [] caller = "main" /\ result = "ok" ->
              /\ pc' = "main"
              /\ authErr' = "none"
              /\ SetHist(NoHist)
              /\ authBefore' = <<None, None>>
              /\ Sleep(d)
              /\ UNCHANGED <<lastOp, fs, auth_headers, cfg, faults, winSleeps,
                             windowsQueried, pageReqs>>
         [] caller = "fetch" /\ result = "ok" ->
              \* self.auth_headers = self.auth.get_auth_headers(); continue
              LET m == NextAttempt(Cur)
              IN  /\ auth_headers' = HeadersAfterReauth(auth_headers, access_token')
                  /\ Apply(m)
                  /\ Sleep(d + m.slept)
                  /\ authErr' = "none"
                  /\ SetHist(NoHist)
                  /\ authBefore' = <<None, None>>
                  /\ UNCHANGED <<lastOp, cfg, faults>>
         [] OTHER ->
              \* the error leaves fetch_all and main()
              /\ pc' = "failed"
              /\ authErr' = result
              /\ SetHist([h EXCEPT !.body = NoBody])
              /\ fs' = [fs EXCEPT !.err = result]
              /\ Sleep(d)
              /\ UNCHANGED <<authBefore, lastOp, auth_headers, cfg, faults, winSleeps,
                             windowsQueried, pageReqs>>

\* Step 1, _get_public_key: GET /security/public-key-certificates
AuthKeyFetch ==
    /\ pc = "auth_key"
    /\ LET h == [Hist EXCEPT !.log = Append(@, "key")]
       IN  \E r \in KeyResponses :
              IF r \in {"ok", "ok_malformed"}
              THEN /\ keyGood' = (r = "ok")
                   /\ AuthGoOn("auth_challenge", h)
                   /\ UNCHANGED <<poll_attempt, clock>>
              ELSE AuthExit(IF r = "http_error" THEN "HttpError" ELSE "KeyFetchError",
                            h, 0)
    /\ UNCHANGED <<access_token, refresh_token, nextTok, fixedInAuth>>

\* Steps 2 and 3, _get_challenge and _encrypt_token: POST /auth/challenge
AuthChallenge ==
    /\ pc = "auth_challenge"
    /\ LET h == [Hist EXCEPT !.log = Append(@, "challenge")]
       IN  \E r \in ChallengeResponses :
              CASE r = "http_error" -> AuthExit("HttpError", h, 0)
                [] r = "no_challenge" -> AuthExit("ChallengeError", h, 0)
                [] OTHER ->
                     IF keyGood
                     THEN /\ AuthGoOn("auth_submit", h)
                          /\ UNCHANGED <<keyGood, poll_attempt, clock>>
                     ELSE AuthExit("EncryptionError", h, 0)
    /\ UNCHANGED <<access_token, refresh_token, nextTok, fixedInAuth>>

\* Step 4, _send_ksef_token: POST /auth/ksef-token
AuthSubmit ==
    /\ pc = "auth_submit"
    /\ LET h == [Hist EXCEPT !.log = Append(@, "submit")]
       IN  \E r \in SubmitResponses :
              CASE r = "http_error" -> AuthExit("HttpError", h, 0)
                [] r = "no_token" -> AuthExit("SubmitError", h, 0)
                [] OTHER ->
                     /\ poll_attempt' = 1
                     /\ AuthGoOn("auth_poll", h)
                     /\ UNCHANGED <<keyGood, clock>>
    /\ UNCHANGED <<access_token, refresh_token, nextTok, fixedInAuth>>

\* what _wait_for_auth makes of a poll response (before it: the same with every
\* embedded code from 200 up to 400 taken for a confirmation, with a rejection
\* only above 400, and with every HTTP status but 200 and 202 taken for a rejection)
PollVerdictOtherHttpRejects(r) ==
    IF r.http = 200 /\ r.code = 200 THEN "confirmed"
    ELSE IF (r.http = 200 /\ r.code >= 400) \/ r.http \notin {200, 202} THEN "rejected"
    ELSE "pending"
PollVerdictEager(r) ==
    IF r.http = 200 /\ r.code >= 200 /\ r.code < 400 THEN "confirmed"
    ELSE IF r.http = 200 /\ r.code >= 400 THEN "rejected"
    ELSE "pending"
PollVerdictAbove400(r) ==
    IF r.http = 200 /\ r.code = 200 THEN "confirmed"
    ELSE IF r.http = 200 /\ r.code > 400 THEN "rejected"
    ELSE "pending"
PollVerdict(r) ==
    IF r.http = 200 /\ r.code = 200 THEN "confirmed"
    ELSE IF r.http = 200 /\ r.code >= 400 THEN "rejected"
    ELSE "pending"

\* the sleep that follows a pending poll with this attempt number (before it: a
\* wait that doubles with every attempt)
PollSleepBackoff(attempt) == SLEEP_S * attempt
PollSleep(attempt) == SLEEP_S

\* `for attempt in range(1, max_retries + 1)`: another poll follows this attempt
\* (before it: the loop one attempt short)
PollAgainOneShort(attempt) == attempt + 1 < MAX_RETRIES
PollAgain(attempt) == attempt < MAX_RETRIES

\* Step 5, _wait_for_auth: one GET /auth/{referenceNumber} and what follows it
AuthPoll ==
    /\ pc = "auth_poll"
    /\ \E r \in PollResponses :
          LET h == [Hist EXCEPT !.log = Append(@, "poll"), !.poll = r]
              d == PollSleep(poll_attempt)
              hs == [h EXCEPT !.sleeps = @ + 1, !.slept = @ + d]
          IN  CASE PollVerdict(r) = "confirmed" ->
                     /\ AuthGoOn("auth_redeem", h)
                     /\ UNCHANGED <<keyGood, poll_attempt, clock>>
                [] PollVerdict(r) = "rejected" -> AuthExit("RejectedError", h, 0)
                [] OTHER ->
                     /\ MayPend
                     /\ IF PollAgain(poll_attempt)
                        THEN /\ poll_attempt' = poll_attempt + 1
                             /\ AuthGoOn("auth_poll", hs)
                             /\ Sleep(d)
                             /\ UNCHANGED keyGood
                        ELSE AuthExit("TimeoutError", hs, d)
    /\ UNCHANGED <<access_token, refresh_token, nextTok, fixedInAuth>>

\* `if not self.access_token: raise ...; return self.access_token` (before it: the
\* return without the test)
RedeemResultUnchecked(tok) == "ok"
RedeemResult(tok) == IF Falsy(tok) THEN "RedeemError" ELSE "ok"

\* Step 6, _redeem_token and the rest of authenticate(): POST /auth/token/redeem
AuthRedeem ==
    /\ pc = "auth_redeem"
    /\ LET h == [Hist EXCEPT !.log = Append(@, "redeem")]
       IN  \/ /\ UNCHANGED <<access_token, refresh_token, nextTok>>
              /\ AuthExit("HttpError", h, 0)
           \/ \E tokens \in RedeemBodies(scenario, nextTok) :
                 /\ nextTok' = nextTok + 1
                 /\ access_token' = Resolve(Or(tokens.accessToken, tokens.token))
                 /\ refresh_token' = Resolve(tokens.refreshToken)
                 /\ AuthExit(RedeemResult(access_token'), [h EXCEPT !.body = tokens], 0)
    /\ UNCHANGED fixedInAuth

\* main() after authenticate(): get_auth_headers, sleep(1), the two dates, the
\* client, and fetch_all("Subject1", ...) up to its first request
MainBegin ==
    /\ pc = "main"
    /\ \E c \in Configs(scenario) :
          /\ cfg' = c
          /\ faults' = c.faults
          /\ auth_headers' = get_auth_headers(access_token)
          /\ LET m0 == [Cur EXCEPT !.fs.date_from = to_iso(c.DATE_FROM, FALSE),
                                   !.fs.date_to = to_iso(c.DATE_TO, TRUE),
                                   !.fs.page_size = ClampPageSize(c.PAGE_SIZE),
                                   !.slept = SLEEP_AFTER_AUTH]
                 m == BeginFetchAll(m0, 1)
             IN  Apply(m) /\ Sleep(m.slept)
    /\ UNCHANGED <<authVars, authHist, clientHist, caller, scenario, lastReq>>

\* one request of _query_page and what the fetcher does with the answer
QueryPage ==
    /\ pc = "query"
    \* the endless server is asked for MaxPages pages
    /\ cfg.mode = "endless" => fs.offset < MaxPages * fs.page_size
    /\ \E r \in QueryAnswers :
          /\ r.status # 200 => faults > 0
          /\ faults' = IF r.status = 200 THEN faults ELSE faults - 1
          /\ lastReq' = [call |-> fs.call, w |-> fs.window_num,
                         from |-> to_iso(fs.window_start, FALSE),
                         to |-> to_iso(fs.window_end, TRUE),
                         offset |-> fs.offset, pageSize |-> fs.page_size,
                         token |-> auth_headers, attempt |-> fs.attempt,
                         status |-> r.status, retry |-> r.retry,
                         acc |-> fs.all_invoices, win |-> fs.win_invoices,
                         reauth |-> (r.status = 401 /\ cfg.hasAuth),
                         inHour |-> IF Ledger THEN Len(reqAges) + 1 ELSE 0]
          /\ IF r.status = 401 /\ cfg.hasAuth
             THEN \* self.auth.authenticate()
                  /\ pc' = "auth_key"
                  /\ caller' = "fetch"
                  /\ BeginAuth
                  /\ pageReqs' = pageReqs + 1
                  /\ RequestThenSleep(0)
                  /\ UNCHANGED <<fs, auth_headers, windowsQueried, winSleeps,
                                 access_token, refresh_token, nextTok, everAuthOk,
                                 latestTok>>
             ELSE LET m0 == [Cur EXCEPT !.pageReqs = @ + 1]
                      m == IF r.status = 429 THEN On429(m0, r.retry)
                           ELSE OnOther(m0, r, cfg)
                  IN  /\ Apply(m)
                      /\ RequestThenSleep(m.slept)
                      /\ UNCHANGED <<caller, auth_headers, authVars, authHist>>
    /\ UNCHANGED <<config, clientHist>>

\* the client calls authenticate()
CallAuthenticate ==
    /\ pc = "idle"
    /\ nOps < MaxOps
    /\ nOps' = nOps + 1
    /\ pc' = "auth_key"
    /\ BeginAuth
    /\ UNCHANGED <<access_token, refresh_token, nextTok, everAuthOk, latestTok, lastOp,
                   caller, config, fetchVars, fetchHist, clock>>

\* the client calls refresh(): POST /auth/token/refresh
CallRefresh ==
    /\ pc = "idle"
    /\ nOps < MaxOps
    /\ nOps' = nOps + 1
    /\ IF Falsy(refresh_token)
       THEN /\ lastOp' = [op |-> "refresh", ok |-> FALSE,
                          err |-> "NotAuthenticatedError", val |-> None, sent |-> FALSE]
            /\ SetHist(NoHist)
            /\ UNCHANGED <<access_token, refresh_token, nextTok, latestTok>>
       ELSE \/ /\ lastOp' = [op |-> "refresh", ok |-> FALSE, err |-> "HttpError",
                             val |-> None, sent |-> TRUE]
               /\ SetHist(NoHist)
               /\ UNCHANGED <<access_token, refresh_token, nextTok, latestTok>>
            \/ \E data \in TokenBodies(nextTok) :
                  /\ SetHist([NoHist EXCEPT !.body = data])
                  /\ nextTok' = nextTok + 1
                  /\ access_token' = Resolve(Or(data.accessToken, data.token))
                  /\ refresh_token' =
                        Resolve(Get(data.refreshToken, Wire("str", refresh_token)))
                  /\ latestTok' = access_token'
                  /\ lastOp' = [op |-> "refresh", ok |-> TRUE, err |-> "none",
                                val |-> access_token', sent |-> TRUE]
    /\ authErr' = "none"
    /\ authBefore' = <<access_token, refresh_token>>
    /\ UNCHANGED <<pc, caller, keyGood, poll_attempt, everAuthOk, config, fetchVars,
                   fetchHist, clock>>

\* the client calls get_auth_headers()
CallGetAuthHeaders ==
    /\ pc = "idle"
    /\ nOps < MaxOps
    /\ nOps' = nOps + 1
    /\ lastOp' = [op |-> "get_auth_headers", ok |-> ~Falsy(access_token),
                  err |-> IF Falsy(access_token) THEN "NotAuthenticatedError"
                          ELSE "none",
                  val |-> get_auth_headers(access_token), sent |-> FALSE]
    /\ SetHist(NoHist)
    /\ authErr' = "none"
    /\ authBefore' = <<access_token, refresh_token>>
    /\ UNCHANGED <<pc, caller, authVars, everAuthOk, latestTok, config, fetchVars,
                   fetchHist, clock>>

----------------------------------------------------------------------------
\* Specifications

Authenticate == AuthKeyFetch \/ AuthChallenge \/ AuthSubmit \/ AuthPoll \/ AuthRedeem

\* main(): authenticate, then the two fetch_all calls
Next == Authenticate \/ MainBegin \/ QueryPage
Spec == Init /\ [][Next]_vars

\* main() on the date ranges of "windows"
SpecWindows == InitMain("windows") /\ [][Next]_vars

\* main() on the content of "quota"
SpecQuota == InitMain("quota") /\ [][Next]_vars

\* main() or the fetcher is about to take its step: MainBegin or QueryPage is
\* enabled
FetchReady ==
    \/ pc = "main"
    \/ pc = "query" /\ (cfg.mode = "endless" => fs.offset < MaxPages * fs.page_size)

\* main() on the servers of "paging". The program is one thread that runs on and
\* every request is answered in the end: weak fairness of the handshake's steps,
\* and of the steps of main() and the fetcher, written with FetchReady for their
\* ENABLED.
SpecPaging ==
    /\ InitMain("paging")
    /\ [][Next]_vars
    /\ WF_vars(Authenticate)
    /\ []<>(~FetchReady) \/ []<><<FetchReady>>_vars

\* a client that calls the operations of one AuthSession in any order
NextAuth == CallAuthenticate \/ Authenticate \/ CallRefresh \/ CallGetAuthHeaders
SpecAuth == InitAuth /\ [][NextAuth]_vars

----------------------------------------------------------------------------
\* The handshake

Last(seq) == seq[Len(seq)]
NumPolls(log) == Cardinality({i \in 1..Len(log) : log[i] = "poll"})
InAuth == pc \in {"auth_key", "auth_challenge", "auth_submit", "auth_poll", "auth_redeem"}
Confirmed(r) == r.http = 200 /\ r.code = 200
Failed(e) == e \notin {"none", "running", "ok"}

\* key, challenge, submit, n polls, and the redeem if there is one
Handshake(n, redeemed) ==
    <<"key", "challenge", "submit">> \o [i \in 1..n |-> "poll"]
        \o (IF redeemed THEN <<"redeem">> ELSE <<>>)
IsPrefix(a, b) == Len(a) <= Len(b) /\ \A i \in 1..Len(a) : a[i] = b[i]

\* C8: the requests of one authenticate() call come in the order key fetch,
\* challenge, submit, polls, redeem; the next request is the one that follows the
\* steps done so far; the redeem comes only after a poll answered HTTP 200 with the
\* embedded code 200; and a call that has failed issues no further request: it has
\* ended on the request of the step that failed.
C8_HandshakeOrder ==
    /\ \E n \in 0..MAX_RETRIES : IsPrefix(authLog, Handshake(n, TRUE))
    /\ pc = "auth_key" => authLog = <<>>
    /\ pc = "auth_challenge" => authLog = <<"key">>
    /\ pc = "auth_submit" => authLog = <<"key", "challenge">>
    /\ pc = "auth_poll" =>
          /\ authLog = Handshake(poll_attempt - 1, FALSE)
          /\ poll_attempt \in 1..MAX_RETRIES
          /\ ~Confirmed(lastPoll)
    /\ pc = "auth_redeem" =>
          /\ authLog = Handshake(NumPolls(authLog), FALSE)
          /\ NumPolls(authLog) >= 1
          /\ Confirmed(lastPoll)
    /\ (authLog # <<>> /\ Last(authLog) = "redeem") =>
          /\ Confirmed(lastPoll)
          /\ NumPolls(authLog) >= 1
    /\ Failed(authErr) =>
          /\ ~InAuth
          /\ authErr = "KeyFetchError" => authLog = <<"key">>
          /\ authErr \in {"ChallengeError", "EncryptionError"} =>
                authLog = <<"key", "challenge">>
          /\ authErr = "SubmitError" => authLog = <<"key", "challenge", "submit">>
          /\ authErr \in {"RejectedError", "TimeoutError"} =>
                /\ Last(authLog) = "poll"
                /\ ~Confirmed(lastPoll)
          /\ authErr = "RedeemError" => Last(authLog) = "redeem"
          /\ authErr = "HttpError" => Last(authLog) # "poll"
    /\ authErr = "ok" => authLog = Handshake(NumPolls(authLog), TRUE)

\* a handshake that took three polls has succeeded
C8_Witness ==
    /\ authErr = "ok"
    /\ authLog = Handshake(3, TRUE)

\* C9: a poll answered HTTP 200 with an embedded code of 400 or more ends
\* authenticate() at once with RejectedError: that poll is the last request of the
\* call, no redeem follows it, and no sleep follows it (the call has slept once after
\* each poll before it); rejected on the first poll, the call has polled once.
C9_RejectedAtOnce ==
    (lastPoll.http = 200 /\ lastPoll.code >= 400) =>
        /\ authErr = "RejectedError"
        /\ ~InAuth
        /\ Last(authLog) = "poll"
        /\ authLog = Handshake(NumPolls(authLog), FALSE)
        /\ pollSleeps = NumPolls(authLog) - 1
        /\ pollSlept = SLEEP_S * (NumPolls(authLog) - 1)

\* the first poll is rejected
C9_Witness ==
    /\ lastPoll = [http |-> 200, code |-> 400]
    /\ authErr = "RejectedError"
    /\ NumPolls(authLog) = 1
    /\ pollSleeps = 0

\* C10: when the k-th poll confirms after k-1 pending ones, the call has polled k
\* times and slept k-1 times, 1.5 s each time, and goes on to the redeem without
\* another poll or sleep; an authenticate() that succeeded has done exactly that.
C10_PollsAndSleeps ==
    /\ Confirmed(lastPoll) =>
          /\ NumPolls(authLog) \in 1..MAX_RETRIES
          /\ pollSleeps = NumPolls(authLog) - 1
          /\ pollSlept = SLEEP_S * pollSleeps
          /\ pc = "auth_redeem" \/ Last(authLog) = "redeem"
    /\ authErr = "ok" =>
          /\ Confirmed(lastPoll)
          /\ authLog = Handshake(pollSleeps + 1, TRUE)

\* the fifteenth poll confirms: fourteen sleeps
C10_Witness ==
    /\ authErr = "ok"
    /\ NumPolls(authLog) = MAX_RETRIES
    /\ pollSleeps = MAX_RETRIES - 1
    /\ pollSlept = SLEEP_S * (MAX_RETRIES - 1)

----------------------------------------------------------------------------
\* The date windows

\* date.toordinal(), counted from the first day of the first year
RECURSIVE DaysBeforeMonth(_, _)
DaysBeforeMonth(y, m) ==
    IF m = 1 THEN 0 ELSE DaysBeforeMonth(y, m - 1) + DaysInMonth(y, m - 1)
Ordinal(a) ==
    365 * (a.y - Y0) + Cardinality({z \in Y0..(a.y - 1) : IsLeap(z)})
        + DaysBeforeMonth(a.y, a.m) + a.d
\* the number of days of a window
SpanDays(w) == Ordinal(w.end) - Ordinal(w.start) + 1
NonEmptyRange == cfg # NoCfg /\ DateLeq(cfg.DATE_FROM, cfg.DATE_TO)

\* C6: for rangeStart <= rangeEnd the windows fetch_all queries are contiguous and
\* do not overlap (each begins the day after the one before it ended), the first
\* begins on rangeStart, none reaches past rangeEnd, and when fetch_all has returned
\* the last one ends on rangeEnd and every day of the range lies in exactly one
\* window; there are as many windows as _count_windows announced.
C6_WindowsPartitionRange ==
    NonEmptyRange =>
        /\ \A i \in 1..Len(windowsQueried) :
              /\ DateLeq(windowsQueried[i].start, windowsQueried[i].end)
              /\ DateLeq(windowsQueried[i].end, cfg.DATE_TO)
              /\ i = 1 => windowsQueried[i].start = cfg.DATE_FROM
              /\ i > 1 => windowsQueried[i].start = PlusDay(windowsQueried[i - 1].end)
        /\ \A i, j \in 1..Len(windowsQueried) :
              i < j => /\ ~DateLeq(windowsQueried[j].start, windowsQueried[i].end)
                       /\ Ordinal(windowsQueried[i].end) < Ordinal(windowsQueried[j].start)
        /\ pc = "done" =>
              /\ windowsQueried # <<>>
              /\ Last(windowsQueried).end = cfg.DATE_TO
              /\ Len(windowsQueried) = fs.total_windows
              /\ LET first == [i \in 1..Len(windowsQueried) |->
                                  Ordinal(windowsQueried[i].start)]
                     last == [i \in 1..Len(windowsQueried) |->
                                 Ordinal(windowsQueried[i].end)]
                 IN  \A day \in Ordinal(cfg.DATE_FROM)..Ordinal(cfg.DATE_TO) :
                        Cardinality({i \in 1..Len(windowsQueried) :
                                        first[i] <= day /\ day <= last[i]}) = 1

\* a range from the last day of November to the middle of August has been fetched
\* in three windows
C6_Witness ==
    /\ pc = "done"
    /\ cfg.DATE_FROM = Date(Y0, 11, 30)
    /\ cfg.DATE_TO = Date(Y1, 6, 15)
    /\ Len(windowsQueried) = 3

\* the longest and the shortest three months minus one day, in days: June to
\* August, and February to April of a common year
MaxSpanDays == 30 + 31 + 31
MinSpanDays == 28 + 31 + 30

\* C7: every window fetch_all queries ends no later than three calendar months
\* minus one day after it began, which is at most MaxSpanDays days; every window
\* but the last of a fetch_all ends exactly then, and has at least MinSpanDays days.
C7_WindowSpan ==
    \A i \in 1..Len(windowsQueried) :
        LET w == windowsQueried[i]
            full == MinusDay(AddMonths(w.start, WINDOW_MONTHS))
            last == IF pc = "done" THEN i = Len(windowsQueried)
                    ELSE w.end = cfg.DATE_TO
        IN  /\ DateLeq(w.end, full)
            /\ SpanDays(w) <= MaxSpanDays
            /\ i < Len(windowsQueried) => w.end = full
            /\ ~last => /\ w.end = full
                        /\ SpanDays(w) >= MinSpanDays

\* a window of full length from the first of December to the leap day, followed by
\* a shorter last one
C7_Witness ==
    /\ pc = "done"
    /\ Len(windowsQueried) = 2
    /\ windowsQueried[1] = [start |-> Date(Y0, 12, 1), end |-> Date(Y1, 2, 29)]
    /\ windowsQueried[2].end = cfg.DATE_TO
    /\ windowsQueried[2].end # MinusDay(AddMonths(windowsQueried[2].start, WINDOW_MONTHS))

----------------------------------------------------------------------------
\* The hourly quota

\* C1: with time passing only in the program's own sleeps, the bulk query endpoint
\* receives at most QUOTA_REQUESTS requests in any trailing hour: every request,
\* counted with the requests of the hour before it, is at most the twentieth.
C1_QuotaHonoured == lastReq.inHour <= QUOTA_REQUESTS

----------------------------------------------------------------------------
\* Retries of a page query

Transient(st) == st \in {401, 429}
\* the request the fetcher would send now
RequestNow ==
    [call |-> fs.call, w |-> fs.window_num, from |-> to_iso(fs.window_start, FALSE),
     to |-> to_iso(fs.window_end, TRUE), offset |-> fs.offset,
     pageSize |-> fs.page_size, acc |-> fs.all_invoices, win |-> fs.win_invoices]
Request(q) ==
    [call |-> q.call, w |-> q.w, from |-> q.from, to |-> q.to, offset |-> q.offset,
     pageSize |-> q.pageSize, acc |-> q.acc, win |-> q.win]

\* what _fetch_window returns when no request fails
RECURSIVE CleanWindow(_, _, _, _, _)
CleanWindow(c, subject_type, w, offset, got) ==
    LET page == ServerPage(c, subject_type, w, offset, ClampPageSize(c.PAGE_SIZE))
        tagged == [i \in 1..Len(page.invoices) |->
                      [page.invoices[i] EXCEPT !.typ = Label(subject_type)]]
    IN  IF page.invoices = <<>> THEN got
        ELSE IF ~page.hasMore THEN got \o tagged
        ELSE CleanWindow(c, subject_type, w, offset + Len(page.invoices), got \o tagged)
\* what fetch_all returns when no request fails
RECURSIVE CleanWindows(_, _, _)
CleanWindows(c, subject_type, n) ==
    IF n = 0 THEN <<>>
    ELSE CleanWindows(c, subject_type, n - 1) \o CleanWindow(c, subject_type, n, 0, <<>>)
CleanRun(c, subject_type) ==
    CleanWindows(c, subject_type, Windows(c.DATE_FROM, c.DATE_TO))
\* window order, then the order of the server's records, each record once
InOrder(list) ==
    \A i, j \in 1..Len(list) :
        i < j => \/ list[i].w < list[j].w
                 \/ list[i].w = list[j].w /\ list[i].i < list[j].i

\* C2: whatever 401 and 429 answers came in between, a fetch_all that has returned
\* (each page query got its successful answer within its 5 attempts, every
\* re-authentication succeeded) has returned the list of the run without faults:
\* the records of each page once, in window order, then in page order. A request
\* that follows a 401 or a 429 asks for the same window and the same offset as the
\* request before it, and the accumulated records stay as they were in between.
C2_RetriesKeepResult ==
    /\ [](/\ fs.call = 2 => fs.wystawione = CleanRun(cfg, "Subject1")
          /\ pc = "done" =>
                /\ fs.otrzymane = CleanRun(cfg, "Subject2")
                /\ InOrder(fs.wystawione) /\ InOrder(fs.otrzymane)
          /\ (Transient(lastReq.status) /\ (pc = "query" \/ InAuth)) =>
                RequestNow = Request(lastReq))
    /\ [][(lastReq' # lastReq /\ Transient(lastReq.status)) =>
             /\ Request(lastReq') = Request(lastReq)
             /\ lastReq'.attempt = lastReq.attempt + 1]_vars

\* five faults were recovered from, and both categories came back in full: two
\* windows of two records each
C2_Witness ==
    /\ pc = "done"
    /\ cfg.faults = MaxFaults /\ faults = 0
    /\ Len(fs.wystawione) = 4
    /\ Len(fs.otrzymane) = 4
    /\ Transient(lastReq.status) \/ lastReq.attempt > 1

\* C3 as stated: a page query sends at most 5 requests, and one whose 5 attempts
\* were each answered 401 (the AuthSession attached) or 429 fails with the
\* FetchError of retry exhaustion.
C3_FiveAnswersExhaust ==
    /\ pageReqs <= MAX_ATTEMPTS
    /\ (/\ pageReqs = MAX_ATTEMPTS
        /\ lastReq.status = 429 \/ (lastReq.status = 401 /\ cfg.hasAuth)
        /\ ~InAuth) =>
           /\ pc = "failed"
           /\ fs.err = "FetchError_exhausted"

\* C3, amended: a page query sends at most 5 requests, no sixth is ever due; after
\* 5 attempts each answered 401 (the AuthSession attached) or 429 it fails with the
\* FetchError of retry exhaustion, unless the fifth answer was a 401 whose
\* re-authentication failed (that error is raised) or a 429 whose Retry-After is
\* not an integer (ValueError); and retry exhaustion is raised in no other case.
C3_RetryBudget ==
    /\ pageReqs <= MAX_ATTEMPTS
    /\ lastReq.attempt <= MAX_ATTEMPTS
    /\ pc = "query" => /\ fs.attempt = pageReqs + 1
                       /\ fs.attempt <= MAX_ATTEMPTS
    /\ (/\ pageReqs = MAX_ATTEMPTS
        /\ lastReq.status = 429 \/ (lastReq.status = 401 /\ cfg.hasAuth)
        /\ ~InAuth) =>
           /\ pc = "failed"
           /\ fs.err = IF lastReq.status = 429 /\ lastReq.retry.k = "date"
                         THEN "ValueError"
                       ELSE IF lastReq.status = 401 /\ Failed(authErr) THEN authErr
                       ELSE "FetchError_exhausted"
    /\ fs.err = "FetchError_exhausted" =>
           /\ pageReqs = MAX_ATTEMPTS
           /\ lastReq.attempt = MAX_ATTEMPTS
           /\ lastReq.status = 429 \/ (lastReq.status = 401 /\ cfg.hasAuth)

\* the fifth answer was a 401 and the re-authentication was rejected
C3_Witness ==
    /\ pageReqs = MAX_ATTEMPTS
    /\ lastReq.status = 401
    /\ pc = "failed"
    /\ fs.err = "RejectedError"

\* C4: a status that is neither a success nor 401 nor 429 fails fetch_all with
\* FetchError on that very request: nothing is slept after it, no
\* re-authentication starts, the request is not sent again, and the run is over
\* with the window, the offset and the records as that request found them.
C4_OtherStatusFailsAtOnce ==
    (lastReq.status \notin {0, 200, 401, 429}) =>
        /\ pc = "failed"
        /\ fs.err = "FetchError_status"
        /\ sinceReq = 0
        /\ ~lastReq.reauth /\ ~InAuth /\ authLog = <<>>
        /\ pageReqs = lastReq.attempt
        /\ RequestNow = Request(lastReq)
        /\ ~ENABLED Next

\* a 500 on the second page of the first of two windows
C4_Witness ==
    /\ lastReq.status = 500
    /\ lastReq.w = 1 /\ fs.total_windows = 2
    /\ lastReq.offset = 2
    /\ pc = "failed"

----------------------------------------------------------------------------
\* The end of polling

Pending(r) == ~(r.http = 200 /\ r.code = 200) /\ ~(r.http = 200 /\ r.code >= 400)

\* C11: polling ends after at most 15 poll requests: when the fifteenth poll, like
\* the fourteen before it, neither confirms nor rejects, authenticate() fails with
\* TimeoutError; a call that timed out has polled exactly 15 times, has sent no
\* redeem, and has left both tokens as they were, so a session that was not
\* authenticated is not authenticated now.
C11_PollingTimesOut ==
    /\ NumPolls(authLog) <= MAX_RETRIES
    /\ pc = "auth_poll" => poll_attempt = NumPolls(authLog) + 1
    /\ (NumPolls(authLog) = MAX_RETRIES /\ Pending(lastPoll)) =>
          /\ authErr = "TimeoutError"
          /\ ~InAuth
    /\ authErr = "TimeoutError" =>
          /\ authLog = Handshake(MAX_RETRIES, FALSE)
          /\ Pending(lastPoll)
          /\ ~InAuth
          /\ <<access_token, refresh_token>> = authBefore
          /\ lastOp.op = "authenticate" /\ ~lastOp.ok /\ lastOp.err = "TimeoutError"
          /\ Falsy(authBefore[1]) => get_auth_headers(access_token) = None

\* fifteen pending polls on a fresh session
C11_Witness ==
    /\ authErr = "TimeoutError"
    /\ NumPolls(authLog) = MAX_RETRIES
    /\ access_token = None
    /\ pc = "idle"

----------------------------------------------------------------------------
\* HTTP errors

\* C12: a response of an AuthSession call that is not a success HTTP status makes
\* the operation fail with HttpError. For the status poll: a poll answered with an
\* HTTP status of 400 or more has ended authenticate() with HttpError. (The key
\* fetch, the challenge, the submit, the redeem and the refresh do raise it.)
C12_NonSuccessIsHttpError ==
    /\ lastPoll.http >= 400 => (~InAuth /\ authErr = "HttpError")
    /\ authErr = "HttpError" => (~InAuth /\ ~lastOp.ok /\ lastOp.err = "HttpError")
    /\ (lastOp.op = "refresh" /\ lastOp.sent /\ ~lastOp.ok) => lastOp.err = "HttpError"

----------------------------------------------------------------------------
\* The Authenticated state

\* C13: when authenticate() has returned without error the session holds a
\* non-empty access token, the value returned is that token, and
\* get_auth_headers() succeeds with the bearer header of that token: both as the
\* session stands after the return and when the client calls it next.
C13_AuthenticatedAfterSuccess ==
    /\ []((lastOp.op = "authenticate" /\ lastOp.ok) =>
             /\ ~Falsy(access_token)
             /\ lastOp.val = access_token
             /\ get_auth_headers(access_token) = lastOp.val
             /\ everAuthOk)
    /\ [][(lastOp.op = "authenticate" /\ lastOp.ok /\ lastOp'.op = "get_auth_headers") =>
             /\ lastOp'.ok
             /\ lastOp'.val = lastOp.val]_vars

\* authenticate() succeeded and the get_auth_headers() after it returned its token
C13_Witness ==
    /\ nOps = 2
    /\ everAuthOk
    /\ lastOp.op = "get_auth_headers" /\ lastOp.ok
    /\ lastOp.val = access_token /\ lastOp.val = latestTok

\* C14: whatever authenticate() and refresh() calls came before, successful or
\* failing, get_auth_headers() fails with NotAuthenticatedError exactly when no
\* authenticate() has succeeded on the session yet, and otherwise returns the bearer
\* header of the access token the latest successful authenticate() or refresh()
\* produced.
C14_HeadersIffAuthenticated ==
    lastOp.op = "get_auth_headers" =>
        /\ lastOp.ok <=> everAuthOk
        /\ ~lastOp.ok => lastOp.err = "NotAuthenticatedError"
        /\ lastOp.ok => lastOp.val = latestTok

\* C15: refresh() sends its request to the refresh endpoint exactly when an earlier
\* authenticate() on the session has succeeded; otherwise it fails with
\* NotAuthenticatedError and sends nothing.
C15_RefreshIffAuthenticated ==
    lastOp.op = "refresh" =>
        /\ lastOp.sent <=> everAuthOk
        /\ ~lastOp.sent => (~lastOp.ok /\ lastOp.err = "NotAuthenticatedError")

----------------------------------------------------------------------------
\* Pacing after a 429

\* the seconds a Retry-After header asks for, in tenths of a second; an HTTP date
\* asks for the time until then, 0 at least
RetryAfterAtLeast(h) ==
    IF h.k = "int" THEN h.v * 10 ELSE IF h.k = "absent" THEN SLEEP_BETWEEN_WINDOWS ELSE 0

\* C16: after a 429 the fetcher has slept the Retry-After of the answer plus 2 s,
\* or 185 s plus 2 s when the answer carried none, with no request in between, and
\* then goes on to the next attempt for the page (or has used up its attempts):
\* 12 s at least after Retry-After: 10.
C16_SleepsRetryAfter ==
    lastReq.status = 429 =>
        /\ sinceReq >= RetryAfterAtLeast(lastReq.retry) + 20
        /\ lastReq.retry.k # "date" => sinceReq = RetryAfterAtLeast(lastReq.retry) + 20
        /\ \/ pc = "query" /\ fs.attempt = lastReq.attempt + 1
           \/ pc = "failed" /\ fs.err = "FetchError_exhausted"

----------------------------------------------------------------------------
\* The end of a window's paging

\* the page the last request was answered with
LastPage ==
    ServerPage(cfg, Subject(lastReq.call), lastReq.w, lastReq.offset, lastReq.pageSize)

\* C17: paging in a window goes on after a page that holds records and reports
\* hasMore, whatever the number of pages so far, and ends at the first successfully
\* fetched page that is empty or does not report hasMore; so a run against a server
\* that sends such a page in every window comes to its end, and a run against a
\* server whose pages are always full with hasMore true never leaves its first
\* window.
C17_PagingStopsOnLastPage ==
    /\ [](lastReq.status = 200 =>
            IF LastPage.invoices # <<>> /\ LastPage.hasMore
            THEN /\ pc = "query"
                 /\ fs.call = lastReq.call /\ fs.window_num = lastReq.w
                 /\ fs.offset = lastReq.offset + Len(LastPage.invoices)
            ELSE /\ pc = "done" \/ fs.call # lastReq.call \/ fs.window_num # lastReq.w
                 /\ pc = "query" => fs.offset = 0)
    /\ []((cfg.mode = "endless" /\ pc # "failed") =>
             /\ fs.call = 1 /\ fs.window_num = 1
             /\ pc = "query" \/ InAuth)
    /\ <>(pc \in {"done", "failed"} \/ cfg.mode = "endless")

\* a window of MaxPages invoices was fetched page by page to the empty page
\* behind them, in both categories
C17_Witness ==
    /\ pc = "done"
    /\ cfg.mode = "always"
    /\ lastReq.offset = MaxPages /\ lastReq.status = 200
    /\ Len(fs.wystawione) = MaxPages /\ Len(fs.otrzymane) = MaxPages

----------------------------------------------------------------------------
\* Re-authentication on a 401

\* C18: a 401 answer to a fetcher that holds the AuthSession starts one
\* authenticate() call, and none starts otherwise; when that call has returned,
\* the fetcher goes back to its requests. Every request carries the header the
\* fetcher holds, which is the bearer header of the token of the latest
\* re-authentication: the request after a re-authentication carries its new token,
\* not the one the 401 answered, and any other request carries the token of the
\* request before it.
C18_ReauthOnceFreshHeader ==
    /\ [](/\ pc = "query" => (~Falsy(auth_headers) /\ auth_headers = latestTok)
          /\ lastReq.reauth =>
                \/ InAuth /\ caller = "fetch"
                \/ pc = "failed" /\ Failed(authErr)
                \/ /\ pc = "query" \/ (pc = "failed" /\ fs.err = "FetchError_exhausted")
                   /\ auth_headers = latestTok
                   /\ auth_headers # lastReq.token)
    /\ [][/\ (lastReq' # lastReq /\ lastReq'.reauth) =>
                (pc' = "auth_key" /\ authLog' = <<>>)
          /\ (pc' = "auth_key" /\ pc # "auth_key") =>
                (pc = "query" /\ lastReq' # lastReq /\ lastReq'.reauth)
          /\ (InAuth /\ caller = "fetch" /\ pc' \notin {"auth_key", "auth_challenge",
                  "auth_submit", "auth_poll", "auth_redeem"}) =>
                pc' \in {"query", "failed"}
          /\ lastReq' # lastReq =>
                /\ lastReq'.token = auth_headers
                /\ lastReq.reauth =>
                      (lastReq'.token = latestTok /\ lastReq'.token # lastReq.token)
                /\ (lastReq.status # 0 /\ ~lastReq.reauth) =>
                      lastReq'.token = lastReq.token]_vars

\* the second fetch_all has ended on a request with the token of a
\* re-authentication
C18_Witness ==
    /\ pc = "done"
    /\ lastReq.call = 2 /\ lastReq.status = 200
    /\ lastReq.token = latestTok
    /\ lastReq.token > 1
    /\ faults < cfg.faults

----------------------------------------------------------------------------
\* Pending polls

\* C19: a poll answer counts as pending exactly when it is neither HTTP 200 with
\* the embedded code 200 nor HTTP 200 with an embedded code of 400 or more: HTTP
\* 202, HTTP 200 without an embedded status or with a code below 400 other than
\* 200, and any other HTTP status. After a pending answer the call has slept 1.5 s
\* once more and polls again (or, after the fifteenth, has timed out); after any
\* other answer it does not poll again and has not slept.
C19_PendingRule ==
    lastPoll # NoPoll =>
        IF Pending(lastPoll)
        THEN /\ pollSleeps = NumPolls(authLog)
             /\ pollSlept = SLEEP_S * NumPolls(authLog)
             /\ \/ /\ pc = "auth_poll"
                   /\ poll_attempt = NumPolls(authLog) + 1
                   /\ authErr = "running"
                \/ /\ NumPolls(authLog) = MAX_RETRIES
                   /\ authErr = "TimeoutError"
        ELSE /\ pc # "auth_poll"
             /\ pollSleeps = NumPolls(authLog) - 1
             /\ pollSlept = SLEEP_S * (NumPolls(authLog) - 1)
             /\ authErr # "TimeoutError"

\* HTTP 200 with the embedded code 399, then another HTTP status: polling goes on
C19_Witness ==
    /\ pc = "auth_poll"
    /\ lastPoll = [http |-> 500, code |-> 0]
    /\ NumPolls(authLog) = 2
    /\ pollSleeps = 2
    /\ pollSlept = 2 * SLEEP_S

----------------------------------------------------------------------------
\* Page offsets

\* the window a request belongs to: the fetch_all call and the window's number
SameWindow(a, b) == a.call = b.call /\ a.w = b.w

\* C20: every page request carries as its offset the number of records received
\* so far in its window; the first request of a window carries offset 0, and from
\* one request to the next in the same window the offset does not decrease (it
\* grows by the size of the page received, and stays on a retry).
C20_OffsetsFollowRecords ==
    /\ [](lastReq.status # 0 => lastReq.offset = Len(lastReq.win))
    /\ [](pc = "query" => fs.offset = Len(fs.win_invoices))
    /\ [][lastReq' # lastReq =>
            IF lastReq.status # 0 /\ SameWindow(lastReq, lastReq')
            THEN /\ lastReq'.offset >= lastReq.offset
                 /\ lastReq'.offset =
                       lastReq.offset +
                       (IF lastReq.status = 200 THEN Len(LastPage.invoices) ELSE 0)
            ELSE lastReq'.offset = 0]_vars

\* a later window's second page is asked for at the offset of the records received
C20_Witness ==
    /\ lastReq.status = 200
    /\ lastReq.w = 2
    /\ lastReq.offset > 0
    /\ lastReq.offset < lastReq.pageSize
    /\ lastReq.offset = Len(lastReq.win)
    /\ Len(lastReq.acc) > 0

----------------------------------------------------------------------------
\* Sleeps between windows

\* the page the last request was answered with ends its window
FinalPage == LastPage.invoices = <<>> \/ ~LastPage.hasMore

\* C21: a fetch_all over N >= 1 windows sleeps 185 s N-1 times: while window w is
\* fetched w-1 such sleeps have happened, the first request of a window other than
\* the first comes exactly 185 s after the last answer of the window before, and
\* fetch_all returns after its N-th window without a further sleep. A request for
\* the next window follows only on the final page of the window before.
C21_SleepsBetweenWindows ==
    /\ [](fs.window_num >= 1 =>
            /\ winSleeps = fs.window_num - 1
            /\ Len(windowsQueried) = fs.window_num
            /\ fs.window_num <= fs.total_windows)
    /\ []((pc = "query" /\ lastReq.call = fs.call /\ lastReq.w # fs.window_num) =>
            /\ fs.window_num = lastReq.w + 1
            /\ lastReq.status = 200 /\ FinalPage
            /\ sinceReq = SLEEP_BETWEEN_WINDOWS)
    /\ []((pc = "query" /\ lastReq.call = fs.call /\ lastReq.w = fs.window_num
                        /\ lastReq.status = 200) =>
            sinceReq = SLEEP_BETWEEN_PAGES)
    /\ []((pc = "done" /\ fs.total_windows >= 1) =>
            /\ winSleeps = fs.total_windows - 1
            /\ fs.window_num = fs.total_windows
            /\ sinceReq = 0)
    /\ [][(fs.call = 1 /\ fs'.call = 2 /\ fs.total_windows >= 1) =>
            /\ winSleeps = fs.total_windows - 1
            /\ fs.window_num = fs.total_windows
            /\ sinceReq' = 0]_vars
    /\ [][(lastReq' # lastReq /\ lastReq.status # 0
             /\ ~SameWindow(lastReq, lastReq')) =>
            /\ lastReq.status = 200 /\ FinalPage
            /\ IF lastReq'.call = lastReq.call
               THEN lastReq'.w = lastReq.w + 1
               ELSE lastReq'.w = 1 /\ lastReq.w = fs.total_windows
            /\ IF lastReq'.call = lastReq.call
               THEN /\ IsPrefix(lastReq.acc \o lastReq.win, lastReq'.acc)
                    /\ Len(lastReq'.acc) = Len(lastReq.acc) + Len(lastReq.win)
                                            + Len(LastPage.invoices)
               ELSE lastReq'.acc = <<>>]_vars

\* both calls of fetch_all have returned over two windows, one sleep each
C21_Witness ==
    /\ pc = "done"
    /\ fs.total_windows = 2
    /\ winSleeps = 1
    /\ Len(fs.otrzymane) > 2

----------------------------------------------------------------------------
\* Token shapes

\* a token field that arrived as a bare string or as an object with a "token"
\* entry is stored as that string
StoredAs(w, tok) == (w.k = "str" \/ (w.k = "dict" /\ w.v # None)) => tok = w.v
\* the client's last operation was an authenticate or a refresh that returned
TokensReplaced ==
    /\ pc = "idle"
    /\ lastOp.op \in {"authenticate", "refresh"}
    /\ lastOp.ok
    /\ lastBody # NoBody

\* C22 as stated: after an authenticate or a refresh that returned, both stored
\* tokens are strings.
C22_TokensAreStrings ==
    TokensReplaced => (access_token # None /\ refresh_token # None)

\* C22: after an authenticate or a refresh that returned, a token whose field
\* arrived as a bare string is stored as that string and one whose field arrived as
\* an object wrapping a token is stored as the wrapped string, the access token
\* and the refresh token alike, in both operations; the access token falls back
\* to the body's "token" field when the "accessToken" field is missing or empty.
C22_TokensNormalised ==
    TokensReplaced =>
        /\ StoredAs(lastBody.accessToken, access_token)
        /\ StoredAs(lastBody.refreshToken, refresh_token)
        /\ lastBody.accessToken.k \in {"absent", "null", "emptydict"} =>
              StoredAs(lastBody.token, access_token)
        /\ lastOp.val = access_token

\* a refresh answered with the access token wrapped and the refresh token bare
C22_Witness ==
    /\ TokensReplaced
    /\ lastOp.op = "refresh"
    /\ lastBody.accessToken.k = "dict" /\ lastBody.accessToken.v # None
    /\ lastBody.refreshToken.k = "str"
    /\ access_token = lastBody.accessToken.v
    /\ refresh_token = lastBody.refreshToken.v
    /\ access_token # authBefore[1]

----------------------------------------------------------------------------
\* Tokens after a failed authenticate

\* C23: when authenticate() has failed, at whichever step, the session holds the
\* access token and the refresh token it held when the call began.
C23_FailedAuthKeepsTokens ==
    (Failed(authErr) /\ ~InAuth) => <<access_token, refresh_token>> = authBefore

----------------------------------------------------------------------------
\* Refresh

\* C24: when refresh() has returned without an error the session holds a
\* non-empty access token, refresh() returned that token, and get_auth_headers()
\* called next succeeds with it.
C24_RefreshKeepsAuthenticated ==
    /\ []((pc = "idle" /\ lastOp.op = "refresh" /\ lastOp.ok) =>
            /\ ~Falsy(access_token)
            /\ lastOp.val = access_token
            /\ get_auth_headers(access_token) = access_token)
    /\ [][(lastOp.op = "refresh" /\ lastOp.ok /\ lastOp'.op = "get_auth_headers") =>
            (lastOp'.ok /\ lastOp'.val = lastOp.val)]_vars

====
